---- MODULE Spec2Model ----
(***************************************************************************)
(* Maintenance-activity scheduling backend (SE_Gruppo10_backend).          *)
(*                                                                         *)
(* The persisted store is the table of MaintenanceActivityModel rows, the  *)
(* table of UserModel rows and the maintainers' availability blocks.       *)
(* models/maintenance_activity.py and models/user.py are translated from   *)
(* their source.  The REST resources (resources/maintenance_activity.py,    *)
(* resources/maintainer_availability.py) are registered by app.py but     *)
(* their code is not among the source files: the assignment service, the  *)
(* availability model and the conflict checker are written from sections  *)
(* 4.2 - 4.4 of the specification, on top of the model-layer methods.      *)
(* The user and authentication resources (resources/user.py, jwt_utils,   *)
(* blacklist) are not among them either: their statuses are taken from    *)
(* test/test_user.py and test/test_authentication.py.                      *)
(***************************************************************************)
EXTENDS Integers, Sequences, FiniteSets, TLC

VARIABLES
    activities,   \* maintenance_activities table: activity_id -> row
    users,        \* users table: username -> row
    response,     \* what the last operation returned to its caller
    inflight,     \* concurrent assign requests: worker -> its request and progress
    initial,      \* the activities table when the concurrent requests arrived
    BLACKLIST,    \* blacklist.BLACKLIST: the revoked access tokens
    issued        \* the access tokens login has issued: token -> identity (username)

vars == <<activities, users, response, inflight, initial, BLACKLIST, issued>>

---------------------------------------------------------------------------
(* Values.                                                                 *)

\* Python None / SQL NULL in a string-typed column.
None == "None"
\* Python None / SQL NULL in an integer-typed column (no input is negative).
NoneInt == 0 - 1

\* config.MAINTAINER_WORK_START_HOUR and config.MAINTAINER_WORK_HOURS
MAINTAINER_WORK_START_HOUR == 8
MAINTAINER_WORK_HOURS == 8

\* Largest activity id the model stores; ids run from 0.
MaxActivityId == 1
\* Longest list handed to get_total_estimated_time.
MaxLen == 2

ActivityIds == 0 .. MaxActivityId

\* role_enum, models/user.py
Roles == {"admin", "maintainer", "planner"}
\* Usernames that requests name; "ghost" is not among the seeded users.
Usernames == {"m1", "m2", "p1", "ghost"}
\* Two of the seven values of week_day_enum.
WeekDays == {"monday", "tuesday"}
\* Weeks that rows are created with: both ends of [1,52] and the first value past each.
Weeks == {0, 1, 52, 53}
\* Weeks that assignment requests name.
RequestWeeks == {0, 1, 52}
\* Hours that requests name: inside, on the ends of, and past the work window.
Hours == {MAINTAINER_WORK_START_HOUR - 1, 9, 10,
          MAINTAINER_WORK_START_HOUR + MAINTAINER_WORK_HOURS,
          MAINTAINER_WORK_START_HOUR + MAINTAINER_WORK_HOURS + 1}
\* estimated_time values, in minutes: one and a half hours, and one hour.
EstimatedTimes == {60, 90}

\* The users table as seeded: two maintainers and a planner.
InitUsers == [u \in {"m1", "m2", "p1"} |->
                 [ username |-> u, password |-> "password",
                   role |-> IF u = "p1" THEN "planner" ELSE "maintainer" ]]

\* A maintainer's recurring weekly availability blocks (section 3 of the
\* specification): m1 has one block on monday and two adjacent blocks on
\* tuesday, m2 one block on monday and none on tuesday.
Availabilities ==
    { [username |-> "m1", week_day |-> "monday",  start |-> 9,  end |-> 12],
      [username |-> "m1", week_day |-> "tuesday", start |-> 9,  end |-> 10],
      [username |-> "m1", week_day |-> "tuesday", start |-> 10, end |-> 11],
      [username |-> "m2", week_day |-> "monday",  start |-> 9,  end |-> 11] }

---------------------------------------------------------------------------
(* models/maintenance_activity.py                                          *)

\* MaintenanceActivityModel.__init__: the constructor sets the ten attributes it
\* is given; week_day, start_time and maintainer_username are not set and are NULL.
NewActivity(activity_id, estimated_time, week) ==
    [ activity_id         |-> activity_id,
      activity_type       |-> "planned",
      site                |-> "site",
      typology            |-> "typology",
      description         |-> "description",
      estimated_time      |-> estimated_time,
      interruptible       |-> TRUE,
      materials           |-> None,
      week                |-> week,
      workspace_notes     |-> None,
      week_day            |-> None,
      start_time          |-> NoneInt,
      maintainer_username |-> None ]

\* The keys of the dictionary json() returns.
JsonKeys == {"activity_id", "activity_type", "site", "typology", "description",
             "estimated_time", "interruptible", "materials", "week",
             "workspace_notes", "skills_needed"}

\* MaintenanceActivityModel.json
json(a) ==
    [k \in JsonKeys |->
        IF k = "skills_needed"
        THEN <<"PAV certification", "Electrical Maintenance", "Knowledge of cable types",
               "XYZ-type robot knowledge", "Knowledge of robot workstation 23">>
        ELSE a[k]]

\* The table without its CHECK constraint on week: the enum, the start_time
\* constraint and the foreign key alone.
RowAcceptedWithoutWeekCheck(a, usrs) ==
    /\ a.start_time = NoneInt
         \/ (/\ a.start_time >= MAINTAINER_WORK_START_HOUR
             /\ a.start_time <= MAINTAINER_WORK_START_HOUR + MAINTAINER_WORK_HOURS)
    /\ a.week_day \in {None, "monday", "tuesday", "wednesday", "thursday",
                       "friday", "saturday", "sunday"}
    /\ a.maintainer_username = None \/ a.maintainer_username \in DOMAIN usrs

\* The table's constraints, checked when a row is written: the two CHECK
\* constraints (satisfied by NULL, as every SQL CHECK is), the week_day enum and
\* the foreign key of maintainer_username into users.username.
RowAccepted(a, usrs) ==
    /\ a.week = NoneInt \/ (a.week >= 1 /\ a.week <= 52)
    /\ a.start_time = NoneInt
         \/ (/\ a.start_time >= MAINTAINER_WORK_START_HOUR
             /\ a.start_time <= MAINTAINER_WORK_START_HOUR + MAINTAINER_WORK_HOURS)
    /\ a.week_day \in {None, "monday", "tuesday", "wednesday", "thursday",
                       "friday", "saturday", "sunday"}
    /\ a.maintainer_username = None \/ a.maintainer_username \in DOMAIN usrs

\* MaintenanceActivityModel.save_to_db: session.add and session.commit. The row
\* is written under its primary key; a row the constraints refuse is not written.
save_to_db(acts, usrs, a) ==
    IF RowAccepted(a, usrs)
    THEN [i \in DOMAIN acts \cup {a.activity_id} |->
             IF i = a.activity_id THEN a ELSE acts[i]]
    ELSE acts

\* MaintenanceActivityModel.update: setattr for every key of data, whatever its value.
update(a, data) ==
    [k \in DOMAIN a |-> IF k \in DOMAIN data THEN data[k] ELSE a[k]]

\* MaintenanceActivityModel.update_and_save
update_and_save(acts, usrs, a, data) ==
    save_to_db(acts, usrs, update(a, data))

\* MaintenanceActivityModel.delete_from_db
delete_from_db(acts, a) ==
    [i \in DOMAIN acts \ {a.activity_id} |-> acts[i]]

\* MaintenanceActivityModel.find_by_id: the ids of the rows found (at most one).
find_by_id(acts, activity_id) ==
    {i \in DOMAIN acts : acts[i].activity_id = activity_id}

\* MaintenanceActivityModel.find_all_in_day_for_user: the ids of the rows of
\* that maintainer, week and week day; exclude = NoneInt is the default, None.
\* "if exclude:" is Python truthiness: None and 0 both skip the filter.
find_all_in_day_for_user(acts, username, week, week_day, exclude) ==
    LET found == {i \in DOMAIN acts :
                     /\ acts[i].maintainer_username = username
                     /\ acts[i].week = week
                     /\ acts[i].week_day = week_day}
    IN  IF exclude # NoneInt /\ exclude # 0
        THEN {i \in found : acts[i].activity_id # exclude}
        ELSE found

RECURSIVE reduce(_, _, _)
\* functools.reduce(function, sequence, initial), with the lambda of
\* get_total_estimated_time: acc + activity.estimated_time.
reduce(acts, sequence, acc) ==
    IF sequence = <<>> THEN acc
    ELSE reduce(acts, Tail(sequence), acc + acts[Head(sequence)].estimated_time)

\* A total that starts from the first element instead of from 0 and so
\* leaves the first element's time out.
get_total_estimated_time_from_first(acts, list) ==
    IF list = <<>> THEN 0 ELSE reduce(acts, Tail(list), 0)

\* MaintenanceActivityModel.get_total_estimated_time, on a list of stored rows.
get_total_estimated_time(acts, list) == reduce(acts, list, 0)

---------------------------------------------------------------------------
(* models/user.py                                                          *)

\* UserModel.find_by_username: the usernames of the rows found (at most one).
find_by_username(usrs, username) ==
    {u \in DOMAIN usrs : u = username}

\* UserModel.__init__
NewUser(username, password, role) ==
    [ username |-> username, password |-> password, role |-> role ]

\* UserModel.json: the password is left out.
UserModel_json(u) == [ username |-> u.username, role |-> u.role ]

\* Python truthiness of a request value: None and the empty string are false.
Truthy(v) == v # None /\ v # ""

\* An update that sets every key of data, whatever its value.
UserModel_update_every_key(u, data) ==
    [k \in DOMAIN u |-> IF k \in DOMAIN data THEN data[k] ELSE u[k]]

\* UserModel.update: setattr for every key of data whose value is truthy.
UserModel_update(u, data) ==
    [k \in DOMAIN u |-> IF k \in DOMAIN data /\ Truthy(data[k]) THEN data[k] ELSE u[k]]

\* The activities that reference a username through the foreign key
\* maintenance_activities.maintainer_username -> users.username.
ReferencedBy(acts, username) ==
    {i \in DOMAIN acts : acts[i].maintainer_username = username}

\* The users table without the primary key on username: the role enum and
\* the foreign key alone.
UserRowAcceptedWithoutPrimaryKey(usrs, acts, key, u) ==
    /\ u.role \in Roles
    /\ (key # None /\ u.username # key) => ReferencedBy(acts, key) = {}

\* The users table's constraints when the row stored under key (None: a new
\* row) is written as u: the role enum, the primary key on username, and the
\* foreign key of the activities that reference the old username.
UserRowAccepted(usrs, acts, key, u) ==
    /\ u.role \in Roles
    /\ u.username # key => u.username \notin DOMAIN usrs
    /\ (key # None /\ u.username # key) => ReferencedBy(acts, key) = {}

\* UserModel.save_to_db: session.add and session.commit of a new row
\* (key = None) or of the row loaded under key; a row the constraints refuse
\* is not written.
UserModel_save_to_db(usrs, acts, key, u) ==
    IF UserRowAccepted(usrs, acts, key, u)
    THEN [n \in (DOMAIN usrs \ {key}) \cup {u.username} |->
             IF n = u.username THEN u ELSE usrs[n]]
    ELSE usrs

\* UserModel.update_and_save
UserModel_update_and_save(usrs, acts, u, data) ==
    UserModel_save_to_db(usrs, acts, u.username, UserModel_update(u, data))

\* UserModel.delete_from_db: a user that an activity references is not deleted.
UserModel_delete_from_db(usrs, acts, u) ==
    IF ReferencedBy(acts, u.username) = {}
    THEN [n \in DOMAIN usrs \ {u.username} |-> usrs[n]]
    ELSE usrs

---------------------------------------------------------------------------
(* Availability model and conflict checker (specification 4.2, 4.3).       *)

\* An availability check that accepts a span covered hour by hour by several
\* blocks of the maintainer on the weekday.
isAvailableAcrossBlocks(maintainer, weekday, startHour, durationMinutes) ==
    \A h \in startHour .. startHour + ((durationMinutes + 59) \div 60) - 1 :
        \E b \in Availabilities :
            /\ b.username = maintainer
            /\ b.week_day = weekday
            /\ b.start <= h
            /\ h < b.end

\* ceil(durationMinutes / 60), on positive integers.
CeilHours(durationMinutes) == (durationMinutes + 59) \div 60

\* isAvailable(maintainer, weekday, startHour, durationMinutes): some block of
\* that maintainer and weekday starts at or before startHour and ends at or
\* after endHour = startHour + ceil(durationMinutes / 60).
isAvailable(maintainer, weekday, startHour, durationMinutes) ==
    LET endHour == startHour + CeilHours(durationMinutes)
    IN  \E b \in Availabilities :
            /\ b.username = maintainer
            /\ b.week_day = weekday
            /\ b.start <= startHour
            /\ b.end >= endHour

\* Two half-open hour ranges [s1,e1) and [s2,e2) conflict.
Overlap(s1, e1, s2, e2) == s1 < e2 /\ s2 < e1

\* hasConflict(maintainer, week, weekday, startHour, durationMinutes,
\* excludeActivityId): some activity that find_all_in_day_for_user returns
\* occupies a range overlapping the candidate's. An activity without a
\* start_time occupies no range.
hasConflict(acts, maintainer, week, weekday, startHour, durationMinutes, excludeActivityId) ==
    \E i \in find_all_in_day_for_user(acts, maintainer, week, weekday, excludeActivityId) :
        /\ acts[i].start_time # NoneInt
        /\ Overlap(startHour, startHour + CeilHours(durationMinutes),
                   acts[i].start_time,
                   acts[i].start_time + CeilHours(acts[i].estimated_time))

---------------------------------------------------------------------------
(* Assignment service (specification 4.4).                                 *)

\* A request: assign(activityId, maintainerUsername, week, weekday, startHour,
\* requestingRole).
Requests ==
    [ role : Roles, id : ActivityIds, username : Usernames,
      week : RequestWeeks, week_day : WeekDays, start_time : Hours ]

\* A validation sequence that looks the activity up before it checks the role.
FailedCheckActivityFirst(acts, usrs, req) ==
    IF find_by_id(acts, req.id) = {} THEN 2
    ELSE IF req.role \notin {"planner", "admin"} THEN 1
    ELSE IF find_by_username(usrs, req.username) = {} THEN 3
    ELSE IF usrs[req.username].role # "maintainer" THEN 3
    ELSE IF ~(req.week >= 1 /\ req.week <= 52) THEN 4
    ELSE IF ~(/\ req.start_time >= MAINTAINER_WORK_START_HOUR
              /\ req.start_time <= MAINTAINER_WORK_START_HOUR + MAINTAINER_WORK_HOURS)
         THEN 5
    ELSE IF ~isAvailable(req.username, req.week_day, req.start_time,
                         acts[req.id].estimated_time) THEN 6
    ELSE IF hasConflict(acts, req.username, req.week, req.week_day, req.start_time,
                        acts[req.id].estimated_time, req.id) THEN 7
    ELSE 0

\* The validation sequence of assign: the number of the first check that
\* fails, taken in the order 1..7, or 0 when every check passes.
FailedCheck(acts, usrs, req) ==
    IF req.role \notin {"planner", "admin"} THEN 1
    ELSE IF find_by_id(acts, req.id) = {} THEN 2
    ELSE IF find_by_username(usrs, req.username) = {} THEN 3
    ELSE IF usrs[req.username].role # "maintainer" THEN 3
    ELSE IF ~(req.week >= 1 /\ req.week <= 52) THEN 4
    ELSE IF ~(/\ req.start_time >= MAINTAINER_WORK_START_HOUR
              /\ req.start_time <= MAINTAINER_WORK_START_HOUR + MAINTAINER_WORK_HOURS)
         THEN 5
    ELSE IF ~isAvailable(req.username, req.week_day, req.start_time,
                         acts[req.id].estimated_time) THEN 6
    ELSE IF hasConflict(acts, req.username, req.week, req.week_day, req.start_time,
                        acts[req.id].estimated_time, req.id) THEN 7
    ELSE 0

\* The error kind assign returns for a failed check ("OK" for none).
ErrorKind(usrs, req, check) ==
    CASE check = 0 -> "OK"
      [] check = 1 -> "Forbidden"
      [] check = 2 -> "NotFound"
      [] check = 3 -> IF req.username \in DOMAIN usrs THEN "InvalidRole" ELSE "NotFound"
      [] check = 4 -> "InvalidInput"
      [] check = 5 -> "InvalidInput"
      [] check = 6 -> "MaintainerUnavailable"
      [] check = 7 -> "SchedulingConflict"

\* The status assign returns.
AssignStatus(acts, usrs, req) == ErrorKind(usrs, req, FailedCheck(acts, usrs, req))

\* An assign that writes the slot as soon as checks 1 to 5 pass, before the
\* availability and conflict checks.
AssignStoreBeforeChecks(acts, usrs, req) ==
    IF FailedCheck(acts, usrs, req) \in {0, 6, 7}
    THEN update_and_save(acts, usrs, acts[req.id],
                         [ maintainer_username |-> req.username,
                           week                |-> req.week,
                           week_day            |-> req.week_day,
                           start_time          |-> req.start_time ])
    ELSE acts

\* The store after assign: on success the activity's maintainer, week,
\* week_day and start_time are set and the row is saved; on an error nothing
\* is written.
AssignStore(acts, usrs, req) ==
    IF FailedCheck(acts, usrs, req) = 0
    THEN update_and_save(acts, usrs, acts[req.id],
                         [ maintainer_username |-> req.username,
                           week                |-> req.week,
                           week_day            |-> req.week_day,
                           start_time          |-> req.start_time ])
    ELSE acts

\* The activity representation assign returns on success.
AssignBody(acts, usrs, req) == json(AssignStore(acts, usrs, req)[req.id])

---------------------------------------------------------------------------
(* Operations.                                                             *)

\* What an operation returned: its name and its status.
Response(op, status) == [op |-> op, status |-> status]

Init ==
    /\ activities = <<>>
    /\ users = InitUsers
    /\ response = Response("none", "OK")
    /\ inflight = <<>>
    /\ initial = <<>>
    /\ BLACKLIST = {}
    /\ issued = <<>>

\* MaintenanceActivityModel(..., activity_id).save_to_db() with an id the
\* caller gives: a new row under that primary key. A key in use, or a row the
\* constraints refuse, is an IntegrityError, and nothing is stored.
Create(activity_id, estimated_time, week) ==
    LET a == NewActivity(activity_id, estimated_time, week)
        ok == activity_id \notin DOMAIN activities /\ RowAccepted(a, users)
    IN  /\ activities' = IF ok THEN save_to_db(activities, users, a) ELSE activities
        /\ response' = Response("create", IF ok THEN "OK" ELSE "IntegrityError")
        /\ UNCHANGED <<users, inflight, initial, BLACKLIST, issued>>

\* MaintenanceActivityModel(...).save_to_db() with activity_id = None: the
\* store assigns the next id of the autoincrement column, which counts from 1.
CreateAuto(estimated_time, week) ==
    LET used == DOMAIN activities \cup {0}
        next == CHOOSE i \in 1 .. MaxActivityId + 1 : i \notin used /\ \A j \in used : j < i
    IN  /\ next <= MaxActivityId
        /\ Create(next, estimated_time, week)

\* assign, as one request run to completion.
Assign(req) ==
    /\ activities' = AssignStore(activities, users, req)
    /\ response' = Response("assign", AssignStatus(activities, users, req))
    /\ UNCHANGED <<users, inflight, initial, BLACKLIST, issued>>

\* The dictionaries update_and_save is called with: each names one column and
\* a value of the column's type, NULL only for a column declared nullable=True.
UpdateData ==
    { [estimated_time |-> 60], [estimated_time |-> 90],
      [week |-> 0], [week |-> 53],
      [week_day |-> "monday"],
      [start_time |-> NoneInt],
      [start_time |-> MAINTAINER_WORK_START_HOUR + MAINTAINER_WORK_HOURS + 1],
      [maintainer_username |-> "ghost"] }

\* find_by_id(id).update_and_save(data) on a stored activity.
Update(activity_id, data) ==
    LET a == update(activities[activity_id], data)
    IN  /\ activity_id \in DOMAIN activities
        /\ activities' = update_and_save(activities, users, activities[activity_id], data)
        /\ response' = Response("update",
                                IF RowAccepted(a, users) THEN "OK" ELSE "IntegrityError")
        /\ UNCHANGED <<users, inflight, initial, BLACKLIST, issued>>

\* find_by_id(id).delete_from_db() on a stored activity.
Delete(activity_id) ==
    /\ activity_id \in DOMAIN activities
    /\ activities' = delete_from_db(activities, activities[activity_id])
    /\ response' = Response("delete", "OK")
    /\ UNCHANGED <<users, inflight, initial, BLACKLIST, issued>>

\* The lists of stored activities of at most n elements (an activity may occur twice).
Lists(acts, n) == UNION {[1 .. k -> DOMAIN acts] : k \in 0 .. n}

\* get_total_estimated_time(list)
Total(list) ==
    /\ response' = Response("total", "OK")
    /\ UNCHANGED <<activities, users, inflight, initial, BLACKLIST, issued>>

Next ==
    \/ \E id \in ActivityIds, e \in EstimatedTimes, w \in Weeks : Create(id, e, w)
    \/ \E e \in EstimatedTimes, w \in Weeks : CreateAuto(e, w)
    \/ \E req \in Requests : Assign(req)
    \/ \E id \in ActivityIds, data \in UpdateData : Update(id, data)
    \/ \E id \in ActivityIds : Delete(id)
    \/ \E list \in Lists(activities, MaxLen) : Total(list)

Spec == Init /\ [][Next]_vars

---------------------------------------------------------------------------
(* Concurrent assignment requests.                                         *)
(*                                                                         *)
(* Each request is served by its own worker with its own session.  The     *)
(* workers interleave at their accesses to the database: the load of the   *)
(* activity and of the maintainer, the availability query, the conflict    *)
(* query (find_all_in_day_for_user) and the write-back (save_to_db).  The   *)
(* source takes no lock and checks no row version.                         *)

Workers == {1, 2}

\* The row a worker holds before it has loaded one.
NoRow == NewActivity(NoneInt, NoneInt, NoneInt)

\* The requests the concurrent workers make: well-formed requests of a planner.
ConcurrentRequests ==
    [ role : {"planner"}, id : ActivityIds, username : {"m1", "m2"},
      week : {1}, week_day : WeekDays, start_time : {9, 10} ]

\* An activity as assign leaves it.
Scheduled(activity_id, estimated_time, username, week, week_day, start_time) ==
    update(NewActivity(activity_id, estimated_time, week),
           [ maintainer_username |-> username, week |-> week,
             week_day |-> week_day, start_time |-> start_time ])

\* The activity tables the concurrent requests arrive at: activities 0 and 1
\* of one hour, activity 1 unscheduled or scheduled for m1 on monday at 9.
ConcurrentStores ==
    { [i \in ActivityIds |-> IF i = 1 THEN row ELSE NewActivity(i, 60, 1)] :
        row \in {NewActivity(1, 60, 1), Scheduled(1, 60, "m1", 1, "monday", 9)} }

InitConcurrent ==
    /\ activities \in ConcurrentStores
    /\ users = InitUsers
    /\ response = Response("none", "OK")
    /\ initial = activities
    /\ BLACKLIST = {}
    /\ issued = <<>>
    /\ \E r1, r2 \in ConcurrentRequests :
          inflight = [w \in Workers |->
                        [ pc |-> "load", req |-> IF w = 1 THEN r1 ELSE r2,
                          loaded |-> NoRow, status |-> "pending", stale |-> FALSE ]]

\* The worker's step to a next program point.
Goto(w, pc) == inflight' = [inflight EXCEPT ![w].pc = pc]

\* The worker returns a status.
Return(w, status) == inflight' = [inflight EXCEPT ![w].pc = "done", ![w].status = status]

\* Checks 1 to 5: the role, find_by_id, find_by_username, the week and the
\* start hour. The worker keeps the row it loaded.
Load(w) ==
    LET req == inflight[w].req
        c == FailedCheck(activities, users, req)
    IN  /\ inflight[w].pc = "load"
        /\ IF c \in 1 .. 5
           THEN Return(w, ErrorKind(users, req, c))
           ELSE inflight' = [inflight EXCEPT ![w].pc = "available",
                                             ![w].loaded = activities[req.id]]
        /\ UNCHANGED <<activities, users, response, initial, BLACKLIST, issued>>

\* Check 6, on the loaded row's duration.
CheckAvailability(w) ==
    LET req == inflight[w].req
    IN  /\ inflight[w].pc = "available"
        /\ IF isAvailable(req.username, req.week_day, req.start_time,
                          inflight[w].loaded.estimated_time)
           THEN Goto(w, "conflict")
           ELSE Return(w, "MaintainerUnavailable")
        /\ UNCHANGED <<activities, users, response, initial, BLACKLIST, issued>>

\* Check 7: find_all_in_day_for_user reads the table as it is now.
CheckConflict(w) ==
    LET req == inflight[w].req
    IN  /\ inflight[w].pc = "conflict"
        /\ IF hasConflict(activities, req.username, req.week, req.week_day,
                          req.start_time, inflight[w].loaded.estimated_time, req.id)
           THEN Return(w, "SchedulingConflict")
           ELSE Goto(w, "write")
        /\ UNCHANGED <<activities, users, response, initial, BLACKLIST, issued>>

\* session.commit() on a loaded row: the UPDATE sets the columns whose value
\* differs from the value loaded, in the row as it is stored now.
Flush(acts, loaded, row) ==
    [k \in DOMAIN row |-> IF row[k] # loaded[k] THEN row[k] ELSE acts[row.activity_id][k]]

\* The write-back: update() on the loaded row, then save_to_db(). The worker
\* is stale when the stored row is no longer the row it loaded and validated.
Write(w) ==
    LET req == inflight[w].req
        loaded == inflight[w].loaded
        row == update(loaded, [ maintainer_username |-> req.username,
                                week                |-> req.week,
                                week_day            |-> req.week_day,
                                start_time          |-> req.start_time ])
    IN  /\ inflight[w].pc = "write"
        /\ activities' = save_to_db(activities, users, Flush(activities, loaded, row))
        /\ inflight' = [inflight EXCEPT ![w].pc = "done", ![w].status = "OK",
                                         ![w].stale = (activities[req.id] # loaded)]
        /\ UNCHANGED <<users, response, initial, BLACKLIST, issued>>

NextConcurrent ==
    \E w \in Workers :
        \/ Load(w)
        \/ CheckAvailability(w)
        \/ CheckConflict(w)
        \/ Write(w)

SpecConcurrent == InitConcurrent /\ [][NextConcurrent]_vars

---------------------------------------------------------------------------
(* Authentication: /login, /logout, /change_password (app.py).  The        *)
(* resources of resources/user.py, jwt_utils and blacklist are imported    *)
(* by app.py but are not among the source files; their behaviour is taken  *)
(* from test/test_authentication.py and section 1 of the specification.    *)

\* The access tokens login can issue.
Tokens == {"t1", "t2"}
\* The passwords requests carry.
Passwords == {"password", "new_password"}

\* An authenticated endpoint's token check: "401" for a request without an
\* Authorization header (token = None), with a token never issued, or with a
\* revoked token; "OK" otherwise.
jwt_required(blacklist, tokens, token) ==
    IF token = None THEN "401"
    ELSE IF token \notin DOMAIN tokens THEN "401"
    ELSE IF token \in blacklist THEN "401"
    ELSE "OK"

\* UserLogout: the status returned.
LogoutStatus(blacklist, tokens, token) ==
    IF jwt_required(blacklist, tokens, token) = "OK" THEN "200" ELSE "401"

\* A logout that answers the request and revokes nothing.
LogoutWithoutRevocation(blacklist, tokens, token) == blacklist

\* UserLogout: the blacklist after the request; an accepted token is added.
LogoutBlacklist(blacklist, tokens, token) ==
    IF jwt_required(blacklist, tokens, token) = "OK"
    THEN blacklist \cup {token}
    ELSE blacklist

\* UserChangePassword: the status returned.
ChangePasswordStatus(blacklist, tokens, usrs, token, old_password) ==
    IF jwt_required(blacklist, tokens, token) # "OK" THEN "401"
    ELSE IF tokens[token] \notin DOMAIN usrs THEN "404"
    ELSE IF usrs[tokens[token]].password # old_password THEN "401"
    ELSE "200"

\* The store with no scheduling state, as the authentication tests set it up.
InitAuth ==
    /\ activities = <<>>
    /\ users = InitUsers
    /\ response = Response("none", "OK")
    /\ inflight = <<>>
    /\ initial = <<>>
    /\ BLACKLIST = {}
    /\ issued = <<>>

\* POST /login: 404 for an unknown user, 401 for a wrong password, else 200
\* and a fresh access token whose identity is the username.
Login(username, password) ==
    LET found == find_by_username(users, username)
        ok == found # {} /\ users[username].password = password
    IN  /\ ok => Tokens \ DOMAIN issued # {}
        /\ response' = Response("login", IF found = {} THEN "404"
                                         ELSE IF ok THEN "200" ELSE "401")
        /\ issued' = IF ok
                     THEN LET t == CHOOSE t \in Tokens : t \notin DOMAIN issued
                          IN  [x \in DOMAIN issued \cup {t} |->
                                  IF x = t THEN username ELSE issued[x]]
                     ELSE issued
        /\ UNCHANGED <<activities, users, inflight, initial, BLACKLIST>>

\* POST /logout with the token the request presents (None: no header).
Logout(token) ==
    /\ BLACKLIST' = LogoutBlacklist(BLACKLIST, issued, token)
    /\ response' = Response("logout", LogoutStatus(BLACKLIST, issued, token))
    /\ UNCHANGED <<activities, users, inflight, initial, issued>>

\* POST /change_password with the token the request presents.
ChangePassword(token, old_password, new_password) ==
    LET status == ChangePasswordStatus(BLACKLIST, issued, users, token, old_password)
    IN  /\ response' = Response("change_password", status)
        /\ users' = IF status = "200"
                    THEN [users EXCEPT ![issued[token]].password = new_password]
                    ELSE users
        /\ UNCHANGED <<activities, inflight, initial, BLACKLIST, issued>>

NextAuth ==
    \/ \E u \in Usernames, pw \in Passwords : Login(u, pw)
    \/ \E t \in DOMAIN issued \cup {None} : Logout(t)
    \/ \E t \in DOMAIN issued \cup {None}, old \in Passwords, new \in Passwords :
          ChangePassword(t, old, new)

SpecAuth == InitAuth /\ [][NextAuth]_vars

---------------------------------------------------------------------------
(* User management: /user and /user/<username> (app.py).  The resources   *)
(* of resources/user.py are not among the source files; their statuses     *)
(* are taken from test/test_user.py, their effects are the methods of      *)
(* models/user.py.                                                         *)

\* The dictionaries PUT /user/<username> carries: each of username, password
\* and role present, absent, empty or null.
UserUpdateData ==
    { [username |-> n] : n \in Usernames }
    \cup { [role |-> r] : r \in Roles }
    \cup { [password |-> "new_password"],
           [username |-> "", role |-> "admin"],
           [username |-> "ghost", password |-> None, role |-> ""],
           [username |-> "m2", password |-> "password", role |-> "planner"],
           <<>> }

\* UserCreate.post: the status returned.
UserCreateStatus(usrs, username) ==
    IF find_by_username(usrs, username) # {} THEN "400" ELSE "201"

\* UserCreate.post: the users table after the request.
UserCreateStore(usrs, acts, username, password, role) ==
    IF find_by_username(usrs, username) # {} THEN usrs
    ELSE UserModel_save_to_db(usrs, acts, None, NewUser(username, password, role))

\* The new username a PUT asks for, when it names another stored user.
RenameTaken(usrs, username, data) ==
    /\ "username" \in DOMAIN data
    /\ Truthy(data.username)
    /\ data.username # username
    /\ find_by_username(usrs, data.username) # {}

\* User.put: the users table after the request.
UserPutStore(usrs, acts, username, data) ==
    IF find_by_username(usrs, username) = {} THEN usrs
    ELSE IF RenameTaken(usrs, username, data) THEN usrs
    ELSE UserModel_update_and_save(usrs, acts, usrs[username], data)

\* User.put: the status returned ("500": the commit raised an IntegrityError).
UserPutStatus(usrs, acts, username, data) ==
    IF find_by_username(usrs, username) = {} THEN "404"
    ELSE IF RenameTaken(usrs, username, data) THEN "400"
    ELSE IF UserRowAccepted(usrs, acts, username, UserModel_update(usrs[username], data))
         THEN "200" ELSE "500"

\* User.delete: the status returned.
UserDeleteStatus(usrs, acts, username) ==
    IF find_by_username(usrs, username) = {} THEN "404"
    ELSE IF ReferencedBy(acts, username) # {} THEN "500"
    ELSE "200"

\* User.delete: the users table after the request.
UserDeleteStore(usrs, acts, username) ==
    IF find_by_username(usrs, username) = {} THEN usrs
    ELSE UserModel_delete_from_db(usrs, acts, usrs[username])

\* POST /user
UserCreate(username, password, role) ==
    /\ users' = UserCreateStore(users, activities, username, password, role)
    /\ response' = Response("user_create", UserCreateStatus(users, username))
    /\ UNCHANGED <<activities, inflight, initial, BLACKLIST, issued>>

\* PUT /user/<username>
UserPut(username, data) ==
    /\ users' = UserPutStore(users, activities, username, data)
    /\ response' = Response("user_put", UserPutStatus(users, activities, username, data))
    /\ UNCHANGED <<activities, inflight, initial, BLACKLIST, issued>>

\* DELETE /user/<username>
UserDelete(username) ==
    /\ users' = UserDeleteStore(users, activities, username)
    /\ response' = Response("user_delete", UserDeleteStatus(users, activities, username))
    /\ UNCHANGED <<activities, inflight, initial, BLACKLIST, issued>>

\* The assignment requests made while users are managed: a planner schedules
\* activity 1 for m1 or m2 on monday at 9, week 1.
UserSpecRequests ==
    [ role : {"planner"}, id : {1}, username : {"m1", "m2"},
      week : {1}, week_day : {"monday"}, start_time : {9} ]

NextUsers ==
    \/ \E n \in Usernames, r \in Roles : UserCreate(n, "password", r)
    \/ \E n \in Usernames, data \in UserUpdateData : UserPut(n, data)
    \/ \E n \in Usernames : UserDelete(n)
    \/ CreateAuto(60, 1)
    \/ \E req \in UserSpecRequests : Assign(req)

SpecUsers == Init /\ [][NextUsers]_vars

---------------------------------------------------------------------------
(* Properties.                                                             *)

\* The work-hour window [start, start + hours].
InWindow(h) ==
    /\ h >= MAINTAINER_WORK_START_HOUR
    /\ h <= MAINTAINER_WORK_START_HOUR + MAINTAINER_WORK_HOURS

\* The checks of 4.4 that a request violates in the current store, each taken
\* on its own; checks 6 and 7 read the activity's duration and are evaluated
\* when the activity exists.
ViolatedChecks(req) ==
    {c \in 1 .. 7 :
        \/ c = 1 /\ req.role # "planner" /\ req.role # "admin"
        \/ c = 2 /\ req.id \notin DOMAIN activities
        \/ c = 3 /\ (req.username \notin DOMAIN users \/ users[req.username].role # "maintainer")
        \/ c = 4 /\ req.week \notin 1 .. 52
        \/ c = 5 /\ ~InWindow(req.start_time)
        \/ c = 6 /\ req.id \in DOMAIN activities
                 /\ ~isAvailable(req.username, req.week_day, req.start_time,
                                 activities[req.id].estimated_time)
        \/ c = 7 /\ req.id \in DOMAIN activities
                 /\ hasConflict(activities, req.username, req.week, req.week_day,
                                req.start_time, activities[req.id].estimated_time, req.id)}

\* The least element of a non-empty set of numbers.
Least(S) == CHOOSE c \in S : \A d \in S : c <= d

\* The error that each numbered check stands for.
ErrorOfCheck(req, c) ==
    CASE c = 1 -> "Forbidden"
      [] c = 2 -> "NotFound"
      [] c = 3 -> IF req.username \notin DOMAIN users THEN "NotFound" ELSE "InvalidRole"
      [] c \in {4, 5} -> "InvalidInput"
      [] c = 6 -> "MaintainerUnavailable"
      [] c = 7 -> "SchedulingConflict"

\* C1: assign reports the error of the lowest-numbered check the request
\* violates (and succeeds when it violates none); a request made with role
\* maintainer yields Forbidden whatever its other arguments are.
C1_FirstFailingCheckWins ==
    response.op = "assign" =>
        \A req \in Requests :
            LET v == ViolatedChecks(req)
                status == AssignStatus(activities, users, req)
            IN  /\ status = IF v = {} THEN "OK" ELSE ErrorOfCheck(req, Least(v))
                /\ req.role = "maintainer" => status = "Forbidden"

\* C1 witness: an assign was answered Forbidden in a store where a request of a
\* maintainer violates at least three checks.
C1_Witness ==
    /\ response.op = "assign"
    /\ response.status = "Forbidden"
    /\ \E req \in Requests :
          req.role = "maintainer" /\ Cardinality(ViolatedChecks(req)) >= 3

\* C2: a step in which assign returns an error leaves the store as it was.
C2_ErrorLeavesStoreUnchanged ==
    [][(response'.op = "assign" /\ response'.status # "OK")
         => (activities' = activities /\ users' = users)]_vars

\* C2 witness: an assign on a stored, scheduled activity was answered
\* SchedulingConflict.
C2_Witness ==
    /\ response.op = "assign"
    /\ response.status = "SchedulingConflict"
    /\ \E i \in DOMAIN activities : activities[i].start_time # NoneInt

\* The number of whole hours a duration in minutes occupies: the least n with
\* 60 * n >= minutes.
HoursOccupied(minutes) == CHOOSE n \in 0 .. minutes : 60 * n >= minutes /\ 60 * (n - 1) < minutes

\* The stored activities of a maintainer on a week and week day.
OnDay(username, week, week_day) ==
    {i \in DOMAIN activities :
        /\ activities[i].maintainer_username = username
        /\ activities[i].week = week
        /\ activities[i].week_day = week_day}

\* Activity i occupies hours overlapping [startHour, startHour + hours of minutes).
Overlaps(i, startHour, minutes) ==
    /\ activities[i].start_time # NoneInt
    /\ startHour < activities[i].start_time + HoursOccupied(activities[i].estimated_time)
    /\ activities[i].start_time < startHour + HoursOccupied(minutes)

\* One availability block of the maintainer on the weekday covers every hour
\* of [startHour, startHour + hours of minutes).
SingleBlockCovers(username, week_day, startHour, minutes) ==
    \E b \in Availabilities :
        /\ b.username = username
        /\ b.week_day = week_day
        /\ \A h \in startHour .. startHour + HoursOccupied(minutes) - 1 :
              b.start <= h /\ h < b.end

\* Every hour of the span is covered by some block of the maintainer on the weekday.
UnionCovers(username, week_day, startHour, minutes) ==
    \A h \in startHour .. startHour + HoursOccupied(minutes) - 1 :
        \E b \in Availabilities :
            /\ b.username = username
            /\ b.week_day = week_day
            /\ b.start <= h /\ h < b.end

\* The requests C3 is about: a planner or admin, an existing activity, an
\* existing maintainer, week and start hour in range, one block covering the
\* span, and no other activity of the maintainer overlapping it that day.
C3_Valid(req) ==
    /\ req.role \in {"planner", "admin"}
    /\ req.id \in DOMAIN activities
    /\ req.username \in DOMAIN users
    /\ users[req.username].role = "maintainer"
    /\ req.week \in 1 .. 52
    /\ InWindow(req.start_time)
    /\ SingleBlockCovers(req.username, req.week_day, req.start_time,
                         activities[req.id].estimated_time)
    /\ \A i \in OnDay(req.username, req.week, req.week_day) \ {req.id} :
          ~Overlaps(i, req.start_time, activities[req.id].estimated_time)

\* C3 (as claimed): every valid request succeeds, the stored activity holds
\* the requested maintainer, week, week day and start hour, and the returned
\* representation shows them.
C3_AssignStoresAndReturnsSlot ==
    \A req \in Requests :
        C3_Valid(req) =>
            LET stored == AssignStore(activities, users, req)[req.id]
                body == AssignBody(activities, users, req)
            IN  /\ AssignStatus(activities, users, req) = "OK"
                /\ stored.maintainer_username = req.username
                /\ stored.week = req.week
                /\ stored.week_day = req.week_day
                /\ stored.start_time = req.start_time
                /\ {"maintainer_username", "week", "week_day", "start_time"} \subseteq DOMAIN body
                /\ body.maintainer_username = req.username
                /\ body.week = req.week
                /\ body.week_day = req.week_day
                /\ body.start_time = req.start_time

\* C4 (as claimed): hasConflict is true exactly when an activity other than
\* the excluded one, of that maintainer, week and week day, occupies a range
\* overlapping the candidate's half-open range.
C4_ConflictIffOtherOverlaps ==
    \A m \in DOMAIN users, w \in RequestWeeks, d \in WeekDays, s \in Hours,
       minutes \in EstimatedTimes, x \in ActivityIds :
        hasConflict(activities, m, w, d, s, minutes, x)
          <=> \E i \in OnDay(m, w, d) \ {x} : Overlaps(i, s, minutes)

\* C6: isAvailable is true exactly when one block of the maintainer on the
\* weekday covers the whole span; it is false when only the union of the
\* blocks covers it, and false when the maintainer has no block that day.
C6_SingleBlockAvailability ==
    \A i \in DOMAIN activities, m \in Usernames, d \in WeekDays, s \in Hours :
        LET minutes == activities[i].estimated_time
            blocks == {b \in Availabilities : b.username = m /\ b.week_day = d}
            available == isAvailable(m, d, s, minutes)
        IN  /\ available <=> SingleBlockCovers(m, d, s, minutes)
            /\ (UnionCovers(m, d, s, minutes) /\ ~SingleBlockCovers(m, d, s, minutes))
                  => ~available
            /\ blocks = {} => ~available

\* C6 witness: an assign was answered MaintainerUnavailable in a store holding
\* an activity whose span some maintainer's blocks cover only in union.
C6_Witness ==
    /\ response.op = "assign"
    /\ response.status = "MaintainerUnavailable"
    /\ \E i \in DOMAIN activities, m \in Usernames, d \in WeekDays, s \in Hours :
          /\ UnionCovers(m, d, s, activities[i].estimated_time)
          /\ ~SingleBlockCovers(m, d, s, activities[i].estimated_time)
          /\ ~isAvailable(m, d, s, activities[i].estimated_time)

\* C7 (as claimed): find_all_in_day_for_user returns exactly the activities
\* of that maintainer, week and week day whose id differs from exclude, for
\* every id passed as exclude, and all of them when exclude is omitted.
C7_FindExcludesGivenId ==
    \A m \in DOMAIN users, w \in RequestWeeks, d \in WeekDays :
        /\ find_all_in_day_for_user(activities, m, w, d, NoneInt) = OnDay(m, w, d)
        /\ \A x \in ActivityIds :
              find_all_in_day_for_user(activities, m, w, d, x)
                = {i \in OnDay(m, w, d) : activities[i].activity_id # x}

\* C8 (as claimed): every stored activity is fully unscheduled or fully scheduled.
C8_FullyScheduledOrUnscheduled ==
    \A i \in DOMAIN activities :
        \/ /\ activities[i].week_day = None
           /\ activities[i].start_time = NoneInt
           /\ activities[i].maintainer_username = None
        \/ /\ activities[i].week_day # None
           /\ activities[i].start_time # NoneInt
           /\ activities[i].maintainer_username # None

\* A row whose week or start_time lies outside the ranges.
OutOfRange(a) ==
    \/ a.week \notin 1 .. 52
    \/ a.start_time # NoneInt /\ ~InWindow(a.start_time)

Occurrences(i, list) == Cardinality({k \in 1 .. Len(list) : list[k] = i})

RECURSIVE SumOver(_, _)
\* The sum, over the activities in S, of estimated_time times the number of
\* occurrences in the list.
SumOver(S, list) ==
    IF S = {} THEN 0
    ELSE LET i == CHOOSE j \in S : TRUE
         IN  activities[i].estimated_time * Occurrences(i, list) + SumOver(S \ {i}, list)

\* get_total_estimated_time returns, for every list of stored activities, the
\* sum of estimated_time counted once per occurrence, and 0 for the empty list.
C10_Sum ==
    /\ get_total_estimated_time(activities, <<>>) = 0
    /\ \A list \in Lists(activities, MaxLen) :
          get_total_estimated_time(activities, list) = SumOver(DOMAIN activities, list)

\* C10: get_total_estimated_time returns the sum of estimated_time over the
\* list, once per occurrence, 0 for the empty list, and a step that calls it
\* changes neither the activities nor any other part of the store.
C10_TotalEstimatedTime ==
    /\ []C10_Sum
    /\ [][response'.op = "total" => (activities' = activities /\ users' = users)]_vars

\* C10 witness: the total was asked for in a store where a list of two
\* activities of 60 and 90 minutes totals 150.
C10_Witness ==
    /\ response.op = "total"
    /\ \E list \in Lists(activities, MaxLen) :
          /\ Len(list) = 2
          /\ activities[list[1]].estimated_time = 60
          /\ activities[list[2]].estimated_time = 90
          /\ get_total_estimated_time(activities, list) = 150

\* The activities table and the two statuses when worker first runs its whole
\* request and worker second runs its own after it.
Serial(first, second) ==
    LET r1 == inflight[first].req
        r2 == inflight[second].req
        s1 == AssignStore(initial, users, r1)
    IN  [ activities |-> AssignStore(s1, users, r2),
          status |-> [w \in Workers |->
                        IF w = first THEN AssignStatus(initial, users, r1)
                        ELSE AssignStatus(s1, users, r2)] ]

\* C5 (as claimed): when two concurrent requests for the same activity id
\* have both returned, the table and the statuses are those of running the
\* two requests one after the other in some order, and no request succeeded
\* on a row the other had overwritten since it was loaded and validated.
C5_SameActivitySerializable ==
    (/\ DOMAIN inflight = Workers
     /\ \A w \in Workers : inflight[w].pc = "done"
     /\ inflight[1].req.id = inflight[2].req.id)
    => /\ \E first \in Workers, second \in Workers :
             /\ first # second
             /\ activities = Serial(first, second).activities
             /\ \A w \in Workers : inflight[w].status = Serial(first, second).status[w]
       /\ \A w \in Workers : inflight[w].status = "OK" => ~inflight[w].stale

\* What C11 says of the requests that can be made in the current state.
C11_Requests ==
    /\ \A t \in DOMAIN issued \ BLACKLIST :
          /\ LogoutStatus(BLACKLIST, issued, t) = "200"
          /\ t \in LogoutBlacklist(BLACKLIST, issued, t)
    /\ \A t \in BLACKLIST \cup {None}, old \in Passwords :
          /\ LogoutStatus(BLACKLIST, issued, t) = "401"
          /\ LogoutBlacklist(BLACKLIST, issued, t) = BLACKLIST
          /\ ChangePasswordStatus(BLACKLIST, issued, users, t, old) = "401"

\* C11: a logout with a valid, non-revoked token returns 200 and revokes the
\* token; every request with a revoked token, a second logout included, and
\* every request with no token returns 401; no step takes a token out of the
\* revoked ones.
C11_RevocationIsPermanent ==
    /\ []C11_Requests
    /\ [][BLACKLIST \subseteq BLACKLIST']_vars

\* C11 witness: a logout was answered 401 for a token that an earlier logout
\* revoked, while another token is still valid.
C11_Witness ==
    /\ response.op = "logout"
    /\ response.status = "401"
    /\ BLACKLIST # {}
    /\ DOMAIN issued \ BLACKLIST # {}

\* C12: no two stored users share a username; creating a user under a stored
\* username, through POST /user (400) or by saving a new row, and renaming a
\* user to the username of another stored user (400), leave the users table
\* as it was; PUT and DELETE of a username that is not stored return 404 and
\* change nothing.
C12_UsernamesStayUnique ==
    /\ \A n \in Usernames : Cardinality({k \in DOMAIN users : users[k].username = n}) <= 1
    /\ \A n \in DOMAIN users, pw \in Passwords, r \in Roles :
          /\ UserCreateStatus(users, n) = "400"
          /\ UserCreateStore(users, activities, n, pw, r) = users
          /\ UserModel_save_to_db(users, activities, None, NewUser(n, pw, r)) = users
    /\ \A n \in DOMAIN users, data \in UserUpdateData :
          ("username" \in DOMAIN data /\ data.username \in DOMAIN users \ {n})
            => /\ UserPutStatus(users, activities, n, data) = "400"
               /\ UserPutStore(users, activities, n, data) = users
    /\ \A n \in Usernames \ DOMAIN users, data \in UserUpdateData :
          /\ UserPutStatus(users, activities, n, data) = "404"
          /\ UserPutStore(users, activities, n, data) = users
          /\ UserDeleteStatus(users, activities, n) = "404"
          /\ UserDeleteStore(users, activities, n) = users

\* C12 witness: a rename to another stored user's username was answered 400
\* in a table that holds the user ghost and lacks a seeded user.
C12_Witness ==
    /\ response.op = "user_put"
    /\ response.status = "400"
    /\ "ghost" \in DOMAIN users
    /\ DOMAIN InitUsers \ DOMAIN users # {}

\* C13: UserModel.update sets each of username, password and role whose value
\* in data is non-empty and leaves each one that is absent, empty or null at
\* its previous value; an update of the username alone keeps the role and the
\* password, an update of the role alone keeps the username and the password.
C13_UserUpdateIsPartial ==
    \A n \in DOMAIN users, data \in UserUpdateData :
        LET old == users[n]
            new == UserModel_update(old, data)
        IN  /\ \A k \in {"username", "password", "role"} :
                  new[k] = IF k \in DOMAIN data /\ data[k] # "" /\ data[k] # None
                           THEN data[k] ELSE old[k]
            /\ DOMAIN data = {"username"} => new.role = old.role /\ new.password = old.password
            /\ DOMAIN data = {"role"} => new.username = old.username /\ new.password = old.password
            /\ UserPutStatus(users, activities, n, data) = "200"
                  => UserPutStore(users, activities, n, data)[new.username] = new

\* C13 witness: a PUT was answered 200 and the table holds the user ghost
\* with the role admin and a password that a later update gave it.
C13_Witness ==
    /\ response.op = "user_put"
    /\ response.status = "200"
    /\ "ghost" \in DOMAIN users
    /\ users["ghost"].password = "new_password"
    /\ users["ghost"].role = "admin"

\* C16 (as claimed): the maintainer_username of every scheduled activity
\* names a stored user whose role is maintainer.
C16_AssignedMaintainerIsMaintainer ==
    \A i \in DOMAIN activities :
        activities[i].maintainer_username # None
          => /\ activities[i].maintainer_username \in DOMAIN users
             /\ users[activities[i].maintainer_username].role = "maintainer"

\* Stored activities i and j are double-booked: the same maintainer, week and
\* week day, and overlapping occupied hours.
DoubleBooked(i, j) ==
    /\ i # j
    /\ activities[i].maintainer_username # None
    /\ activities[i].week_day # None
    /\ activities[i].start_time # NoneInt
    /\ activities[j].maintainer_username = activities[i].maintainer_username
    /\ activities[j].week = activities[i].week
    /\ activities[j].week_day = activities[i].week_day
    /\ Overlaps(j, activities[i].start_time, activities[i].estimated_time)

\* C14 (as claimed): no two distinct stored activities of the same
\* maintainer, week and week day occupy overlapping hour ranges.
C14_NoDoubleBooking ==
    \A i \in DOMAIN activities, j \in DOMAIN activities : ~DoubleBooked(i, j)

\* C15 (as claimed): when two concurrent requests for different activity ids
\* that name the same maintainer, week and week day with overlapping hours
\* have both returned, they have not both succeeded, the one that did not
\* succeed beside a successful one returned SchedulingConflict, and no two
\* stored activities are double-booked.
C15_DifferentActivitiesNeverBothSucceed ==
    (/\ DOMAIN inflight = Workers
     /\ \A w \in Workers : inflight[w].pc = "done"
     /\ inflight[1].req.id # inflight[2].req.id
     /\ inflight[1].req.username = inflight[2].req.username
     /\ inflight[1].req.week = inflight[2].req.week
     /\ inflight[1].req.week_day = inflight[2].req.week_day
     /\ inflight[1].req.start_time
           < inflight[2].req.start_time + HoursOccupied(initial[inflight[2].req.id].estimated_time)
     /\ inflight[2].req.start_time
           < inflight[1].req.start_time + HoursOccupied(initial[inflight[1].req.id].estimated_time))
    => /\ \E w \in Workers : inflight[w].status # "OK"
       /\ \A w \in Workers, v \in Workers :
             (inflight[w].status = "OK" /\ v # w) => inflight[v].status = "SchedulingConflict"
       /\ \A i \in DOMAIN activities, j \in DOMAIN activities : ~DoubleBooked(i, j)

\* The value is the NULL of column k.
IsNull(k, v) ==
    IF k \in {"activity_id", "estimated_time", "week", "start_time"}
    THEN v = NoneInt
    ELSE v = None

\* C17 (as claimed): MaintenanceActivityModel.update gives every field that
\* data carries with a non-null value that value, and leaves every field
\* that is absent from data or carried with a null value as it was.
C17_ActivityUpdateIsPartial ==
    \A i \in DOMAIN activities, data \in UpdateData :
        LET old == activities[i]
            new == update(old, data)
        IN  \A k \in DOMAIN old :
                new[k] = IF k \in DOMAIN data /\ ~IsNull(k, data[k]) THEN data[k] ELSE old[k]

====
